---------------------------- MODULE Spec2Model ----------------------------
(***************************************************************************)
(* Model of the reai-ai-relay listing-copy endpoints.                      *)
(*                                                                         *)
(* The repository holds four POST handlers for the same endpoint:          *)
(*   "relay"  src/src/app/api/ai/describe/route.js:234  (callOpenAI, mode) *)
(*   "ru"     src/src/app/api/ai/describe/route.js:325  (Russian, style)   *)
(*   "en"     src/unnamed/part_000:24          (English, mode/style/images)*)
(*   "ruts"   src/unnamed/part_001:21          (Russian, TypeScript)       *)
(*                                                                         *)
(* A JavaScript value is a record [t, v]: t is the typeof tag and v a      *)
(* sequence (the characters of a string, the one number of a number, the   *)
(* elements of an array).  A string is a sequence of text pieces: single   *)
(* characters for caller- and provider-supplied text and for every text    *)
(* the code measures or cuts, whole phrases for template literals that are *)
(* only concatenated.                                                      *)
(***************************************************************************)
EXTENDS Integers, Sequences, FiniteSets, TLC

VARIABLES handler, processEnv, body, pc, calls, net, resp,
          llmOutcome, \* the relay: const llm, what callOpenAI returned
          absImages,  \* the English handler: its normalized image list
          imageParts  \* the image_url entries of const parts, sent to the provider

vars ==
  <<handler, processEnv, body, pc, calls, net, resp, llmOutcome, absImages, imageParts>>

---------------------------------------------------------------------------
(* Bounds of the model *)

\* longest run of prose characters the provider puts around its JSON object
MaxProse == 1
\* how many distinct non-success statuses the provider may answer with
MaxErrStatuses == 2
\* longest list of relative image paths a request carries
MaxImages == 7

---------------------------------------------------------------------------
(* JavaScript values *)

Undef     == [t |-> "undefined", v |-> <<>>]
Null      == [t |-> "null", v |-> <<>>]
Str(s)    == [t |-> "string", v |-> s]
Num(n)    == [t |-> "number", v |-> <<n>>]
Arr(s)    == [t |-> "array", v |-> s]
Bool(b)   == [t |-> "boolean", v |-> <<b>>]

IsStr(x)  == x.t = "string"
IsNum(x)  == x.t = "number"

\* JavaScript truthiness (x || y, x ? a : b, !x)
Truthy(x) ==
  CASE x.t = "undefined" -> FALSE
    [] x.t = "null"      -> FALSE
    [] x.t = "string"    -> x.v /= <<>>
    [] x.t = "number"    -> x.v[1] /= 0
    [] x.t = "boolean"   -> x.v[1]
    [] OTHER             -> TRUE

\* x ?? y
Coalesce(x, y) == IF x.t \in {"undefined", "null"} THEN y ELSE x

\* x || y
OrElse(x, y) == IF Truthy(x) THEN x ELSE y

\* the positions of a string that hold something other than a blank
NonBlankAt(s) == {i \in 1..Len(s) : s[i] /= " "}

TrimStart(s) ==
  IF NonBlankAt(s) = {} THEN <<>>
  ELSE SubSeq(s, CHOOSE i \in 1..Len(s) :
                   s[i] /= " " /\ \A j \in 1..(i - 1) : s[j] = " ",
              Len(s))

TrimEnd(s) ==
  IF NonBlankAt(s) = {} THEN <<>>
  ELSE SubSeq(s, 1,
              CHOOSE i \in 1..Len(s) :
                s[i] /= " " /\ \A j \in (i + 1)..Len(s) : s[j] = " ")

\* String.prototype.trim
Trim(s) == TrimEnd(TrimStart(s))

\* String.prototype.slice(0, n)
Slice0(s, n) == SubSeq(s, 1, IF Len(s) < n THEN Len(s) ELSE n)

\* a string of n copies of the character c
Rep(c, n) == [i \in 1..n |-> c]

\* the decimal digits of a natural number, one character each
RECURSIVE Digits(_)
Digits(n) == IF n < 10 THEN <<ToString(n)>> ELSE Digits(n \div 10) \o <<ToString(n % 10)>>

\* String(n) for an integer
NumChars(n) == IF n < 0 THEN <<"-">> \o Digits(0 - n) ELSE Digits(n)

\* `${x}` : template interpolation of a value
Interp(x) ==
  CASE x.t = "string"    -> x.v
    [] x.t = "number"    -> NumChars(x.v[1])
    [] x.t = "undefined" -> <<"undefined">>
    [] x.t = "null"      -> <<"null">>
    [] OTHER             -> <<"[object]">>

\* parts.join(sep) on a sequence of strings
RECURSIVE Join(_, _)
Join(parts, sep) ==
  IF parts = <<>> THEN <<>>
  ELSE IF Len(parts) = 1 THEN parts[1]
  ELSE parts[1] \o sep \o Join(Tail(parts), sep)

\* (x || "").trim() : throws a TypeError when x is truthy and not a string
TrimOrEmptyThrows(x) == Truthy(x) /\ ~IsStr(x)
TrimOrEmpty(x) == IF Truthy(x) THEN Trim(x.v) ELSE <<>>

isNonEmpty(x) == IsStr(x) /\ Len(Trim(x.v)) > 0

---------------------------------------------------------------------------
(* The provider's content and JSON.parse *)

\* The content is a sequence of lexemes: braces, prose characters, the key
\* of a nested object and whole members ("key": value, with its comma).
MemberKey(tok) ==
  CASE tok \in {"T", "Tp", "Tw", "Tn", "TL", "Ts"} -> "title"
    [] tok \in {"B", "Bw"}                   -> "business"
    [] tok \in {"E"}                         -> "emotional"
    [] OTHER                                 -> "none"

MemberVal(tok) ==
  CASE tok = "T"  -> Str(<<"C", "o", "z", "y">>)
    [] tok = "Tp" -> Str(<<" ", "C", "o", "z", "y", " ">>)
    [] tok = "Tw" -> Str(<<" ", " ">>)
    [] tok = "Tn" -> Num(5)
    [] tok = "TL" -> Str(Rep("x", 201))
    [] tok = "Ts" -> Str(Rep(" ", 200) \o <<"x">>)
    [] tok = "B"  -> Str(<<"B", "i", "z", ".">>)
    [] tok = "Bw" -> Str(<<" ">>)
    [] tok = "E"  -> Str(<<"E", "m", "o", ".">>)
    [] OTHER      -> Undef

IsMember(tok) == MemberKey(tok) /= "none"

NoObject == [title |-> Undef, business |-> Undef, emotional |-> Undef]

\* the members of a flat object, a later key overriding an earlier one
RECURSIVE FlatMembers(_, _)
FlatMembers(s, acc) ==
  IF s = <<>> THEN acc
  ELSE FlatMembers(Tail(s), [acc EXCEPT ![MemberKey(Head(s))] = MemberVal(Head(s))])

\* index of the first "}" of s at or after i, 0 if none
RECURSIVE FirstClose(_, _)
FirstClose(s, i) ==
  IF i > Len(s) THEN 0 ELSE IF s[i] = "}" THEN i ELSE FirstClose(s, i + 1)

ParseFail == [ok |-> FALSE, title |-> Undef, business |-> Undef, emotional |-> Undef,
              texts |-> NoObject]

\* the members between the outer braces: plain members and "texts": { ... }
RECURSIVE ParseMembers(_, _)
ParseMembers(s, acc) ==
  IF s = <<>> THEN acc
  ELSE IF IsMember(Head(s))
    THEN ParseMembers(Tail(s), [acc EXCEPT ![MemberKey(Head(s))] = MemberVal(Head(s))])
  ELSE IF Head(s) = "texts:" /\ Len(s) >= 3 /\ s[2] = "{"
    THEN LET j == FirstClose(s, 3) IN
         IF j = 0 \/ \E k \in 3..(j - 1) : ~IsMember(s[k]) THEN ParseFail
         ELSE ParseMembers(SubSeq(s, j + 1, Len(s)),
                [acc EXCEPT !.texts = FlatMembers(SubSeq(s, 3, j - 1), NoObject)])
  ELSE ParseFail

\* JSON.parse(text): ok = FALSE when it throws a SyntaxError
JsonParse(s) ==
  IF Len(s) >= 2 /\ s[1] = "{" /\ s[Len(s)] = "}"
    THEN ParseMembers(SubSeq(s, 2, Len(s) - 1), [ParseFail EXCEPT !.ok = TRUE])
    ELSE ParseFail

\* raw.indexOf("{") and raw.lastIndexOf("}"), 1-based, 0 for "not found"
RECURSIVE IndexOf(_, _, _)
IndexOf(s, c, i) ==
  IF i > Len(s) THEN 0 ELSE IF s[i] = c THEN i ELSE IndexOf(s, c, i + 1)

RECURSIVE LastIndexOf(_, _, _)
LastIndexOf(s, c, i) ==
  IF i < 1 THEN 0 ELSE IF s[i] = c THEN i ELSE LastIndexOf(s, c, i - 1)

\* start >= 0 && end > start ? raw.slice(start, end + 1) : "{}"
ExtractJson(raw) ==
  LET start == IndexOf(raw, "{", 1)
      end   == LastIndexOf(raw, "}", Len(raw))
  IN IF start >= 1 /\ end > start THEN SubSeq(raw, start, end) ELSE <<"{", "}">>

---------------------------------------------------------------------------
(* The request body *)

\* what a property read gives: the field of an object, undefined on a
\* primitive (a body that is null never gets this far without a TypeError)
Get(b, f) == IF b.kind = "object" THEN b[f] ELSE Undef

\* typeof x === "number"
TypeofNumber(x) == IsNum(x)

---------------------------------------------------------------------------
(* Fallback generators of the relay handler, route.js:34-117 *)

IsDigit(c) == c \in {"0", "1", "2", "3", "4", "5", "6", "7", "8", "9"}

DigitVal(c) ==
  CASE c = "0" -> 0 [] c = "1" -> 1 [] c = "2" -> 2 [] c = "3" -> 3 [] c = "4" -> 4
    [] c = "5" -> 5 [] c = "6" -> 6 [] c = "7" -> 7 [] c = "8" -> 8 [] OTHER -> 9

RECURSIVE DigitsVal(_, _)
DigitsVal(s, acc) ==
  IF s = <<>> THEN acc ELSE DigitsVal(Tail(s), acc * 10 + DigitVal(Head(s)))

\* String(price): the characters of a string, the digits (and sign) of an integer
PriceChars(price) ==
  IF IsStr(price) THEN price.v ELSE Interp(price)

\* parsePriceToNumber: undefined is modelled as -1 (a price is never negative
\* once the sign is stripped)
NoPrice == 0 - 1

parsePriceToNumber(price) ==
  IF ~Truthy(price) THEN NoPrice
  ELSE LET kept == SelectSeq(PriceChars(price), LAMBDA c : IsDigit(c) \/ c = ".")
           dot  == IndexOf(kept, ".", 1)
           ndot == Len(SelectSeq(kept, LAMBDA c : c = "."))
           int  == IF dot = 0 THEN kept ELSE SubSeq(kept, 1, dot - 1)
           frac == IF dot = 0 THEN <<>> ELSE SubSeq(kept, dot + 1, Len(kept))
       IN IF ndot > 1 THEN NoPrice                   \* Number("1.2.3") is NaN
          ELSE IF ndot = 1 /\ Len(kept) = 1 THEN NoPrice    \* Number(".") is NaN
          ELSE DigitsVal(int, 0)                     \* Number("") is 0
               + (IF frac /= <<>> /\ DigitVal(frac[1]) >= 5 THEN 1 ELSE 0)

Pad3(k) ==
  IF k < 10 THEN <<"0", "0">> \o Digits(k)
  ELSE IF k < 100 THEN <<"0">> \o Digits(k) ELSE Digits(k)

\* Number.prototype.toLocaleString() under the en-US default: groups of three
RECURSIVE toLocaleString(_)
toLocaleString(n) ==
  IF n < 1000 THEN Digits(n)
  ELSE toLocaleString(n \div 1000) \o <<",">> \o Pad3(n % 1000)

featList(bedrooms, bathrooms, area) ==
  Join((IF TypeofNumber(bedrooms) THEN <<Interp(bedrooms) \o <<" BR">>>> ELSE <<>>)
       \o (IF TypeofNumber(bathrooms) THEN <<Interp(bathrooms) \o <<" BA">>>> ELSE <<>>)
       \o (IF TypeofNumber(area) THEN <<Interp(area) \o <<" ft2">>>> ELSE <<>>),
       <<" <middot> ">>)

TitleCut == 120

fallbackTitle(data) ==
  LET parts == (IF Truthy(Get(data, "bedrooms"))
                  THEN <<Interp(Get(data, "bedrooms"))
                         \o <<"-", "B", "e", "d", "r", "o", "o", "m">>>>
                  ELSE <<>>)
               \o (IF Truthy(Get(data, "area"))
                  THEN <<Interp(Get(data, "area")) \o <<" ", "f", "t", "2">>>>
                  ELSE <<>>)
      head  == IF Len(parts) > 0 THEN Join(parts, <<" ">>)
               ELSE <<"M", "o", "d", "e", "r", "n", " ", "H", "o", "m", "e">>
      loc   == IF Truthy(Get(data, "address"))
                 THEN <<" ", "i", "n", " ">> \o Interp(Get(data, "address"))
                 ELSE <<>>
  IN Slice0(head \o loc, TitleCut)

NBizShort == 2
NBizMedium == 4
NBizLong == 6

\* the counts of short and long taken for each other
SentenceCountReversed(length) ==
  IF length = Str(<<"short">>) THEN NBizLong
  ELSE IF length = Str(<<"long">>) THEN NBizShort ELSE NBizMedium

\* nBiz and nEmo, route.js:69-70 (the same numbers for both)
SentenceCount(length) ==
  IF length = Str(<<"short">>) THEN NBizShort
  ELSE IF length = Str(<<"long">>) THEN NBizLong ELSE NBizMedium

businessSentences(data) ==
  LET feats     == featList(Get(data, "bedrooms"), Get(data, "bathrooms"), Get(data, "area"))
      priceN    == parsePriceToNumber(Get(data, "price"))
      priceText == IF priceN /= NoPrice
                     THEN <<" Priced around $">> \o toLocaleString(priceN) \o <<".">>
                     ELSE <<>>
      hasImages == Get(data, "images").t = "array" /\ Len(Get(data, "images").v) > 0
      imgHint   == IF hasImages THEN <<" Photos showcase the space and natural light.">>
                   ELSE <<>>
  IN <<<<"Turn-key property">>
        \o (IF Truthy(Get(data, "address")) THEN <<" at ">> \o Interp(Get(data, "address"))
            ELSE <<>>)
        \o <<" with ">> \o (IF feats /= <<>> THEN feats ELSE <<"balanced layout">>)
        \o <<".">>>>
     \o (IF Truthy(Get(data, "area"))
           THEN <<<<"Efficient floor plan across ">> \o Interp(Get(data, "area"))
                  \o <<" square feet with flexible living zones.">>>>
           ELSE <<>>)
     \o (IF Truthy(Get(data, "bedrooms")) \/ Truthy(Get(data, "bathrooms"))
           THEN <<<<"Comfortable ">> \o Interp(Coalesce(Get(data, "bedrooms"), Str(<<"<mdash>">>)))
                  \o <<" bedrooms and ">>
                  \o Interp(Coalesce(Get(data, "bathrooms"), Str(<<"<mdash>">>)))
                  \o <<" bathrooms for daily convenience.">>>>
           ELSE <<>>)
     \o <<<<"Ready for immediate move-in with straightforward ownership and utilities.">>
          \o priceText>>
     \o <<<<"Suitable for personal living or as a steady rental asset.">> \o imgHint>>

emotionalSentences(data) ==
  LET hasImages == Get(data, "images").t = "array" /\ Len(Get(data, "images").v) > 0
  IN <<<<"Step inside and feel the calm <mdash> soft daylight and a welcoming flow set the tone.">>,
       <<"Cook, gather, and unwind in spaces that bring people together without feeling crowded.">>>>
     \o (IF Truthy(Get(data, "address"))
           THEN <<<<"The neighborhood around ">> \o Interp(Get(data, "address"))
                  \o <<" adds a sense of belonging.">>>>
           ELSE <<>>)
     \o (IF hasImages
           THEN <<<<"The photos hint at warm evenings and lazy weekends already waiting here.">>>>
           ELSE <<>>)
     \o <<<<"It's a place that feels like home from the first minute.">>>>

fallbackDescriptions(data, length) ==
  [business  |-> Join(Slice0(businessSentences(data), SentenceCount(length)), <<" ">>),
   emotional |-> Join(Slice0(emotionalSentences(data), SentenceCount(length)), <<" ">>)]

---------------------------------------------------------------------------
(* Fallback generators of the English handler, part_000:4-22 *)

genTitle(b) ==
  LET parts == (IF TypeofNumber(Get(b, "bedrooms"))
                  THEN <<Interp(Get(b, "bedrooms")) \o <<" BR">>>> ELSE <<>>)
               \o (IF TypeofNumber(Get(b, "bathrooms"))
                  THEN <<Interp(Get(b, "bathrooms")) \o <<" BA">>>> ELSE <<>>)
               \o (IF TypeofNumber(Get(b, "area"))
                  THEN <<<<"~">> \o Interp(Get(b, "area")) \o <<" ft2">>>> ELSE <<>>)
      meta  == Join(parts, <<" <middot> ">>)
      addr  == IF Truthy(Get(b, "address"))
                 THEN <<" <mdash> ">> \o Interp(Get(b, "address")) ELSE <<>>
      base  == IF meta /= <<>> THEN meta ELSE <<"Property">>
  IN base \o addr

\* genBusiness({ ...b, title }): title is the string the caller spreads in
genBusinessEn(b, title) ==
  LET t    == IF Trim(title) /= <<>> THEN Trim(title) ELSE genTitle(b)
      area == IF Truthy(Get(b, "area"))
                THEN <<" ~">> \o Interp(Get(b, "area")) \o <<" ft2.">> ELSE <<>>
  IN t \o <<".">> \o area
       \o <<" Functional layout, clean lobby, convenient access to transport and daily amenities. Ready for showings.">>

genEmotionalEn(b, title) ==
  LET t == IF Trim(title) /= <<>> THEN Trim(title) ELSE <<"A cozy home">>
  IN t \o <<" with bright living areas and quiet bedrooms; balcony/outsides for evenings. Parks, cafes, and good schools nearby. Great for living or investment.">>

---------------------------------------------------------------------------
(* Fallback generators of the Russian handlers, route.js:311-323 and
   part_001:8-19 (the Russian phrases are written in Latin letters) *)

\* (b.title || "").trim() in route.js:312, b.title?.trim() in part_001:9
TitleTrimThrows(h, b) ==
  IF h = "ruts" THEN Get(b, "title").t \notin {"undefined", "null", "string"}
  ELSE TrimOrEmptyThrows(Get(b, "title"))

TitleTrimmed(b) == IF IsStr(Get(b, "title")) THEN Trim(Get(b, "title").v) ELSE <<>>

genBusinessRu(b) ==
  LET t     == IF TitleTrimmed(b) /= <<>> THEN TitleTrimmed(b) ELSE <<"Kvartira">>
      rooms == IF Truthy(Get(b, "rooms"))
                 THEN Interp(Get(b, "rooms")) \o <<"-komnatnaya">> ELSE <<"Zhilyo">>
      area  == IF Truthy(Get(b, "area"))
                 THEN <<"~">> \o Interp(Get(b, "area")) \o <<" m2. ">> ELSE <<>>
      addr  == IF Truthy(Get(b, "address"))
                 THEN <<", ">> \o Interp(Get(b, "address")) ELSE <<>>
  IN rooms \o <<" ">> \o t \o addr \o <<". ">> \o area
       \o <<"Panoramnye okna, funktsionalnaya planirovka, akkuratnyi podyezd. Ryadom transport i infrastruktura. Gotovo k pokazam.">>

genEmotionalRu(b) ==
  LET t == IF TitleTrimmed(b) /= <<>> THEN TitleTrimmed(b) ELSE <<"uyutnaya kvartira">>
  IN <<"Sovremennyi uyut <mdash> ">> \o t
       \o <<". Svetlaya gostinaya i tikhie spalni, balkon dlya vecherov. ">>
       \o <<"Parki, kafe i khoroshie shkoly <mdash> vsyo ryadom.">>
       \o <<" Otlichnyi variant dlya zhizni i investitsii.">>

---------------------------------------------------------------------------
(* Responses *)

\* A response body.  A field that is undefined is absent from the JSON sent.
NoResp == [ok |-> FALSE, http |-> 0, source |-> Undef, llm_status |-> Undef,
           llm_error |-> Undef, title |-> Undef, hasTexts |-> FALSE,
           business |-> Undef, emotional |-> Undef, error |-> Undef]

\* what one run of a handler ends with: a response, or an exception that
\* leaves POST uncaught
Sent(r)  == [pc |-> "done", resp |-> r]
Uncaught == [pc |-> "thrown", resp |-> NoResp]

ErrorCut == 500
TitleMax == 200
HttpOkLow == 200
HttpOkHigh == 299

\* Response.ok
StatusOk(n) == n.status >= HttpOkLow /\ n.status <= HttpOkHigh

ModeOf(b)   == OrElse(Get(b, "mode"), Str(<<"all">>))
StyleOf(b)  == OrElse(Get(b, "style"), Str(<<"both">>))
LengthOf(b) == OrElse(Get(b, "length"), Str(<<"medium">>))

ModeTitle        == Str(<<"title">>)
ModeDescriptions == Str(<<"descriptions">>)
ModeAll          == Str(<<"all">>)
StyleBusiness    == Str(<<"business">>)
StyleEmotional   == Str(<<"emotional">>)

\* JSON.parse(errText)?.error?.message || errText, msg = errText when the
\* parse throws; then (msg || "unknown")
ErrorMessage(n) ==
  LET msg == IF n.jsonOk THEN OrElse(n.message, Str(n.text)) ELSE Str(n.text)
  IN OrElse(msg, Str(<<"unknown">>))

---------------------------------------------------------------------------
(* POST of part_000 (English, mode / style / images) *)

\* part_000:27: process.env.SOURCE_BASE_URL || "https://reality.na4u.ru"
DefaultBase == Str(<<"https://reality.na4u.ru">>)

EnBase(env) == OrElse(env.SOURCE_BASE_URL, DefaultBase)

DefaultMaxN == 6

\* Number(x) for a number and for a string that is blank, a decimal integer
\* with an optional minus sign, or not numeric at all (NaN)
ToNumber(x) ==
  IF IsNum(x) THEN [nan |-> FALSE, n |-> x.v[1]]
  ELSE LET s      == Trim(x.v)
           neg    == s /= <<>> /\ Head(s) = "-"
           digits == IF neg THEN Tail(s) ELSE s
       IN IF s = <<>> THEN [nan |-> FALSE, n |-> 0]
          ELSE IF digits /= <<>> /\ \A i \in 1..Len(digits) : IsDigit(digits[i])
            THEN [nan |-> FALSE,
                  n |-> IF neg THEN 0 - DigitsVal(digits, 0) ELSE DigitsVal(digits, 0)]
          ELSE [nan |-> TRUE, n |-> 0]

\* part_000:28: Number(process.env.MAX_IMAGE_COUNT || 6)
EnMaxN(env) == ToNumber(OrElse(env.MAX_IMAGE_COUNT, Num(DefaultMaxN)))

\* Array.prototype.slice(0, end): NaN counts as 0, a negative end counts
\* from the back
SliceEnd(s, end) ==
  LET k == IF end.nan THEN 0
           ELSE IF end.n < 0 THEN (IF Len(s) + end.n < 0 THEN 0 ELSE Len(s) + end.n)
           ELSE IF end.n > Len(s) THEN Len(s) ELSE end.n
  IN SubSeq(s, 1, k)

\* String.prototype.startsWith
StartsWith(u, prefix) ==
  Len(u) >= Len(prefix) /\ SubSeq(u, 1, Len(prefix)) = prefix

Http == <<"h", "t", "t", "p">>

\* part_000:37-42: const absImages
EnAbsImages(b, env) ==
  LET images == Get(b, "images")
  IN IF images.t /= "array" THEN <<>>
     ELSE LET strings == SelectSeq(images.v, IsStr)
              mapped  == [i \in 1..Len(strings) |->
                            IF StartsWith(strings[i].v, Http) THEN strings[i]
                            ELSE Str(EnBase(env).v \o strings[i].v)]
          IN SliceEnd(mapped, EnMaxN(env))

\* the flag read as it came, without the normalisation of part_000:34
EnUseImagesRaw(b) == Truthy(Get(b, "useImages"))

\* part_000:34: b.useImages = b.useImages !== false
EnUseImages(b) == Get(b, "useImages") /= Bool(FALSE)

\* part_000:102-107: the image_url parts pushed after the text part, each
\* given by its url
EnImageParts(b, env) ==
  IF EnUseImages(b) /\ Len(EnAbsImages(b, env)) /= 0 THEN EnAbsImages(b, env)
  ELSE <<>>

\* !apiKey, part_000:25 and :88
EnHasKey(env) == Truthy(env.OPENAI_API_KEY)

\* part_000:30-48: b.style = ... on a primitive body is a TypeError in an ES
\* module (strict mode); (b.notes || "").trim() is one for a truthy
\* non-string notes.  Both are outside the try block.
EnPrologueThrows(b) ==
  \/ b.kind = "primitive"
  \/ TrimOrEmptyThrows(Get(b, "notes"))

\* the style test of the business text taken for that of the emotional text
EnFallbackBusinessSwapped(b, title) ==
  IF ModeOf(b) = ModeTitle THEN <<>>
  ELSE IF StyleOf(b) = StyleBusiness THEN <<>> ELSE genBusinessEn(b, title)

\* the fallback texts of part_000:90-91, :129-130, :158-159 and, with the
\* provider's title, :151-152
EnFallbackBusiness(b, title) ==
  IF ModeOf(b) = ModeTitle THEN <<>>
  ELSE IF StyleOf(b) = StyleEmotional THEN <<>> ELSE genBusinessEn(b, title)

EnFallbackEmotional(b, title) ==
  IF ModeOf(b) = ModeTitle \/ StyleOf(b) = StyleBusiness THEN <<>>
  ELSE genEmotionalEn(b, title)

EnFallback(b, source, status, error) ==
  LET title == genTitle(b)
  IN Sent([NoResp EXCEPT !.ok = TRUE, !.http = 200, !.title = Str(title),
             !.hasTexts = TRUE,
             !.business = Str(EnFallbackBusiness(b, title)),
             !.emotional = Str(EnFallbackEmotional(b, title)),
             !.source = Str(<<source>>), !.llm_status = status, !.llm_error = error])

\* part_000:88-93
EnNoKey(b) == EnFallback(b, "fallback", Undef, Undef)

\* a handler that starts over after an exception instead of answering
EnCatchRetry(b, message) == [pc |-> "start", resp |-> NoResp]

\* part_000:156-161
EnCatch(b, message) == EnFallback(b, "fallback_exception", Undef, Str(message))

\* part_000:137-141: the object the handler reads the fields from
EnParsed(raw) ==
  LET p == JsonParse(ExtractJson(raw))
  IN IF p.ok THEN p ELSE ParseFail

\* part_000:143-155
EnSuccess(b, raw) ==
  LET parsed    == EnParsed(raw)
      title     == IF IsStr(parsed.title) THEN Trim(parsed.title.v) ELSE <<>>
      business  == IF ModeOf(b) /= ModeTitle /\ StyleOf(b) /= StyleEmotional
                      /\ IsStr(parsed.business)
                     THEN Trim(parsed.business.v) ELSE <<>>
      emotional == IF ModeOf(b) /= ModeTitle /\ StyleOf(b) /= StyleBusiness
                      /\ IsStr(parsed.emotional)
                     THEN Trim(parsed.emotional.v) ELSE <<>>
      t         == IF title /= <<>> THEN title ELSE genTitle(b)
  IN Sent([NoResp EXCEPT !.ok = TRUE, !.http = 200, !.title = Str(t),
             !.hasTexts = TRUE,
             !.business = Str(IF business /= <<>> THEN business
                              ELSE EnFallbackBusiness(b, t)),
             !.emotional = Str(IF emotional /= <<>> THEN emotional
                               ELSE EnFallbackEmotional(b, t)),
             !.source = Str(<<"llm">>)])

\* part_000:109-161, from the moment fetch settles
EnAfterFetch(b, n) ==
  IF n.kind = "reject" THEN EnCatch(b, <<"fetch failed">>)
  ELSE IF ~StatusOk(n)
    THEN (IF ~IsStr(ErrorMessage(n))
            THEN EnCatch(b, <<"(msg || \"unknown\").slice is not a function">>)
            ELSE EnFallback(b, "fallback_llm_error", Num(n.status),
                            Str(Slice0(ErrorMessage(n).v, ErrorCut))))
  ELSE IF ~n.jsonOk THEN EnCatch(b, <<"Unexpected token in JSON">>)
  ELSE IF ~IsStr(Coalesce(n.content, Str(<<"{", "}">>)))
    THEN EnCatch(b, <<"raw.indexOf is not a function">>)
  ELSE EnSuccess(b, Coalesce(n.content, Str(<<"{", "}">>)).v)

---------------------------------------------------------------------------
(* POST of route.js:325-428 ("ru") and of part_001:21-112 ("ruts") *)

RuHasKey(env) == Truthy(env.OPENAI_API_KEY)

\* part_001:24 has no "|| {}": a null body makes body.title a TypeError;
\* part_001:35 (body.images || []).join throws for a truthy non-array.
\* route.js:328 and :340 guard both.
RuPrologueThrows(h, b) ==
  /\ h = "ruts"
  /\ \/ b.kind = "null"
     \/ Truthy(Get(b, "images")) /\ Get(b, "images").t /= "array"

\* The texts object { business: x || (...genBusiness(body)),
\*                    emotional: y || (...genEmotional(body)) }
\* with x, y the provider's values (empty on the fallback paths).
\* A generator is called only when its value is needed, and throws
\* when the title has no trim().
RuTextsThrow(h, b, x, y) ==
  /\ TitleTrimThrows(h, b)
  /\ \/ x = <<>> /\ StyleOf(b) /= StyleEmotional
     \/ y = <<>> /\ StyleOf(b) /= StyleBusiness

RuBusiness(b, x) ==
  IF x /= <<>> THEN x
  ELSE IF StyleOf(b) = StyleEmotional THEN <<>> ELSE genBusinessRu(b)

RuEmotional(b, y) ==
  IF y /= <<>> THEN y
  ELSE IF StyleOf(b) = StyleBusiness THEN <<>> ELSE genEmotionalRu(b)

RuReply(h, b, x, y, source, status, error) ==
  IF RuTextsThrow(h, b, x, y) THEN Uncaught
  ELSE Sent([NoResp EXCEPT !.ok = TRUE, !.http = 200, !.hasTexts = TRUE,
               !.business = Str(RuBusiness(b, x)),
               !.emotional = Str(RuEmotional(b, y)),
               !.source = Str(<<source>>), !.llm_status = status,
               !.llm_error = error])

\* route.js:351-360, part_001:46-50
RuNoKey(h, b) == RuReply(h, b, <<>>, <<>>, "fallback", Undef, Undef)

\* route.js:417-427, part_001:105-111: the catch block calls the generators
\* again, outside any try
RuCatch(h, b, message) ==
  RuReply(h, b, <<>>, <<>>, "fallback_exception", Undef, Str(message))

\* route.js:400-416, part_001:88-104
RuSuccess(h, b, raw) ==
  LET parsed    == EnParsed(raw)
      business  == IF StyleOf(b) /= StyleEmotional /\ IsStr(parsed.business)
                     THEN Trim(parsed.business.v) ELSE <<>>
      emotional == IF StyleOf(b) /= StyleBusiness /\ IsStr(parsed.emotional)
                     THEN Trim(parsed.emotional.v) ELSE <<>>
  IN IF RuTextsThrow(h, b, business, emotional)
       THEN RuCatch(h, b, <<"trim is not a function">>)
       ELSE RuReply(h, b, business, emotional, "llm", Undef, Undef)

\* route.js:369-427, part_001:59-111, from the moment fetch settles
RuAfterFetch(h, b, n) ==
  IF n.kind = "reject" THEN RuCatch(h, b, <<"fetch failed">>)
  ELSE IF ~StatusOk(n)
    THEN (IF ~IsStr(ErrorMessage(n))
            THEN RuCatch(h, b, <<"(msg || \"unknown\").slice is not a function">>)
          ELSE IF RuTextsThrow(h, b, <<>>, <<>>)
            THEN RuCatch(h, b, <<"trim is not a function">>)
          ELSE RuReply(h, b, <<>>, <<>>, "fallback_llm_error", Num(n.status),
                       Str(Slice0(ErrorMessage(n).v, ErrorCut))))
  ELSE IF ~n.jsonOk THEN RuCatch(h, b, <<"Unexpected token in JSON">>)
  ELSE IF ~IsStr(Coalesce(n.content, Str(<<"{", "}">>)))
    THEN RuCatch(h, b, <<"raw.indexOf is not a function">>)
  ELSE RuSuccess(h, b, Coalesce(n.content, Str(<<"{", "}">>)).v)

---------------------------------------------------------------------------
(* callOpenAI and POST of route.js:172-306 ("relay") *)

\* route.js:173-176 and :240-243
RelayHasKey(env) ==
  Truthy(env.OPENAI_API_KEY) \/ Truthy(env.OPENAI_APIKEY) \/ Truthy(env.OPENAI_KEY)

LlmNone == [status |-> "missing_key", title |-> Undef, business |-> Undef,
            emotional |-> Undef, error |-> Undef]

LlmError(e) == [LlmNone EXCEPT !.status = "error", !.error = e]

\* route.js:181-227, the try block from the moment fetch settles: what it
\* returns, or status "thrown" with the exception's message when fetch rejects
callOpenAITry(n) ==
  IF n.kind = "reject"
    THEN [LlmNone EXCEPT !.status = "thrown", !.error = Str(<<"fetch failed">>)]
  ELSE LET message == IF n.jsonOk THEN n.message ELSE Undef
           content == IF n.jsonOk THEN n.content ELSE Undef
       IN IF ~StatusOk(n)
            THEN LlmError(OrElse(message, Str(<<"HTTP ">> \o NumChars(n.status))))
          ELSE IF ~Truthy(content) \/ ~IsStr(content)
            THEN LlmError(Str(<<"empty_response">>))
          ELSE LET parsed == JsonParse(content.v)
               IN IF ~parsed.ok THEN LlmError(Str(<<"bad_json">>))
                  ELSE [LlmNone EXCEPT
                          !.status = "ok",
                          !.title = IF isNonEmpty(parsed.title)
                                      THEN parsed.title ELSE Undef,
                          !.business = IF isNonEmpty(parsed.texts.business)
                                         THEN parsed.texts.business ELSE Undef,
                          !.emotional = IF isNonEmpty(parsed.texts.emotional)
                                          THEN parsed.texts.emotional ELSE Undef]

\* the client without its catch block
callOpenAIUncaught(n) == callOpenAITry(n)

\* route.js:172-231: the catch block of :228-230 turns the exception into
\* { status: "error", error: String(e?.message || e) }
callOpenAI(n) ==
  IF callOpenAITry(n).status = "thrown" THEN LlmError(callOpenAITry(n).error)
  ELSE callOpenAITry(n)

EmptyData == [kind |-> "unparseable"]

\* route.js:290-301: the handler's own catch block
RelayCatch(message) ==
  LET fb == fallbackDescriptions(EmptyData, Str(<<"medium">>))
  IN Sent([NoResp EXCEPT !.ok = TRUE, !.http = 200, !.source = Str(<<"fallback">>),
             !.llm_status = Str(<<"error">>), !.llm_error = Str(message),
             !.title = Str(<<"M", "o", "d", "e", "r", "n", " ", "H", "o", "m", "e">>),
             !.hasTexts = TRUE, !.business = Str(fb.business),
             !.emotional = Str(fb.emotional)])

\* route.js:249-289
RelayCompose(b, env, llm) ==
  IF TrimOrEmptyThrows(Get(b, "title"))
    THEN RelayCatch(<<"(body.title || \"\").trim is not a function">>)
  ELSE
  LET mode      == ModeOf(b)
      length    == LengthOf(b)
      title0    == IF isNonEmpty(llm.title) THEN Slice0(llm.title.v, TitleMax)
                   ELSE TrimOrEmpty(Get(b, "title"))
      business0 == IF isNonEmpty(llm.business) THEN llm.business.v ELSE <<>>
      emotional0 == IF isNonEmpty(llm.emotional) THEN llm.emotional.v ELSE <<>>
      needTitle == mode = ModeTitle \/ mode = ModeAll
      needTexts == mode = ModeDescriptions \/ mode = ModeAll
      title     == IF needTitle /\ ~isNonEmpty(Str(title0)) THEN fallbackTitle(b)
                   ELSE title0
      fb        == fallbackDescriptions(b, length)
      business  == IF needTexts /\ ~isNonEmpty(Str(business0)) THEN fb.business
                   ELSE business0
      emotional == IF needTexts /\ ~isNonEmpty(Str(emotional0)) THEN fb.emotional
                   ELSE emotional0
      error     == IF Truthy(llm.error) THEN llm.error
                   ELSE IF ~RelayHasKey(env) THEN Str(<<"MISSING_API_KEY">>)
                   ELSE Undef
      payload   == [NoResp EXCEPT
                      !.ok = TRUE, !.http = 200,
                      !.source = IF llm.status = "ok" THEN Str(<<"openai">>)
                                 ELSE Str(<<"fallback">>),
                      !.llm_status = Str(<<llm.status>>),
                      !.llm_error = error]
  IN Sent(IF mode = ModeTitle THEN [payload EXCEPT !.title = Str(title)]
          ELSE IF mode = ModeDescriptions
            THEN [payload EXCEPT !.hasTexts = TRUE, !.business = Str(business),
                                 !.emotional = Str(emotional)]
          ELSE [payload EXCEPT !.title = Str(title), !.hasTexts = TRUE,
                               !.business = Str(business),
                               !.emotional = Str(emotional)])

---------------------------------------------------------------------------
(* Inputs: configuration, request bodies, provider outcomes *)

Handlers == {"relay", "ru", "en", "ruts"}

Key == Str(<<"s", "k">>)

\* process.env: nothing set, the standard variable set, only an alias set
NoEnv ==
  [OPENAI_API_KEY |-> Undef, OPENAI_APIKEY |-> Undef, OPENAI_KEY |-> Undef,
   SOURCE_BASE_URL |-> Undef, MAX_IMAGE_COUNT |-> Undef]

Envs ==
  { NoEnv,
    [NoEnv EXCEPT !.OPENAI_API_KEY = Key],
    [NoEnv EXCEPT !.OPENAI_KEY = Key] }

EmptyObject ==
  [kind |-> "object", title |-> Undef, address |-> Undef, notes |-> Undef,
   price |-> Undef, bedrooms |-> Undef, bathrooms |-> Undef, rooms |-> Undef,
   area |-> Undef, images |-> Undef, style |-> Undef, mode |-> Undef,
   length |-> Undef, useImages |-> Undef]

\* a listing with its facts filled in
FullObject ==
  [EmptyObject EXCEPT
     !.address = Str(<<"M", "a", "i", "n", " ", "S", "t">>),
     !.price = Num(1200), !.bedrooms = Num(2), !.rooms = Num(2),
     !.area = Num(850), !.images = Arr(<<Str(<<"/", "a", ".", "j", "p", "g">>)>>),
     !.length = Str(<<"short">>)]

Titles == {Undef, Str(<<"L", "o", "f", "t">>), Str(<<" ">>), Num(5)}
Modes  == {Undef, ModeTitle, ModeDescriptions}
Styles == {Undef, StyleBusiness, StyleEmotional}
Notes  == {Undef, Num(5)}

\* req.json(): an object, a rejected parse (no body, bad JSON), null, or
\* another primitive
Bodies ==
  { [base EXCEPT !.title = t, !.mode = m, !.style = st, !.notes = nt] :
      base \in {EmptyObject, FullObject}, t \in Titles, m \in Modes,
      st \in Styles, nt \in Notes }
  \cup { [EmptyObject EXCEPT !.kind = k] : k \in {"unparseable", "null", "primitive"} }

NoNet == [kind |-> "none", status |-> 0, jsonOk |-> FALSE, message |-> Undef,
          text |-> <<>>, content |-> Undef]

ErrStatuses == { 499 + i : i \in 1..MaxErrStatuses }

\* the body of a non-success answer: its text, whether it is JSON, and the
\* error.message it then carries
ErrBodies ==
  { [jsonOk |-> FALSE, message |-> Undef, text |-> <<>>],
    [jsonOk |-> FALSE, message |-> Undef, text |-> <<"B", "a", "d">>],
    [jsonOk |-> FALSE, message |-> Undef, text |-> Rep("e", ErrorCut + 1)],
    [jsonOk |-> TRUE,  message |-> Undef, text |-> <<"{", "}">>],
    [jsonOk |-> TRUE,  message |-> Str(<<"q", "u", "o", "t", "a">>),
     text |-> <<"{", "error", "}">>],
    [jsonOk |-> TRUE,  message |-> Str(Rep("e", ErrorCut + 1)),
     text |-> <<"{", "error", "}">>],
    [jsonOk |-> TRUE,  message |-> Num(5), text |-> <<"{", "error", "}">>] }

Prose == { Rep("p", n) : n \in 0..MaxProse } \cup { <<"{">>, <<"}">> }

Objects ==
  { <<>>,
    <<"{", "}">>,
    <<"{", "T", "B", "E", "}">>,
    <<"{", "T", "texts:", "{", "B", "E", "}", "}">>,
    <<"{", "Tp", "Bw", "}">>,
    <<"{", "Tw", "E", "}">>,
    <<"{", "Tn", "}">>,
    <<"{", "TL", "}">>,
    <<"{", "Ts", "}">>,
    <<"{", "T">> }

Contents == { pre \o obj \o post : pre \in Prose, obj \in Objects, post \in Prose }

Outcomes ==
  { [NoNet EXCEPT !.kind = "reject"] }
  \cup { [NoNet EXCEPT !.kind = "http", !.status = s, !.jsonOk = e.jsonOk,
                       !.message = e.message, !.text = e.text] :
           s \in ErrStatuses, e \in ErrBodies }
  \cup { [NoNet EXCEPT !.kind = "http", !.status = 200] }
  \cup { [NoNet EXCEPT !.kind = "http", !.status = 200, !.jsonOk = TRUE, !.content = c] :
           c \in {Undef, Num(5)} \cup { Str(x) : x \in Contents } }

---------------------------------------------------------------------------
(* The state machine: one request through one handler *)

Init ==
  /\ handler \in Handlers
  /\ processEnv \in Envs
  /\ body \in Bodies
  /\ pc = "start"
  /\ calls = 0
  /\ net = NoNet
  /\ resp = NoResp
  /\ llmOutcome = LlmNone
  /\ absImages = <<>>
  /\ imageParts = <<>>

\* the handler runs up to its fetch, or to its end when it makes none
Finish(out) ==
  /\ pc' = out.pc
  /\ resp' = out.resp
  /\ UNCHANGED <<handler, processEnv, body, calls, net>>

Fetch ==
  /\ pc' = "awaiting"
  /\ calls' = calls + 1
  /\ UNCHANGED <<handler, processEnv, body, net, resp>>

Settle(n, out) ==
  /\ net' = n
  /\ pc' = out.pc
  /\ resp' = out.resp
  /\ UNCHANGED <<handler, processEnv, body, calls>>

PostRelayStart ==
  /\ pc = "start" /\ handler = "relay"
  /\ IF RelayHasKey(processEnv) THEN Fetch
     ELSE Finish(RelayCompose(body, processEnv, LlmNone))
  /\ UNCHANGED <<llmOutcome, absImages, imageParts>>

PostRelaySettle ==
  /\ pc = "awaiting" /\ handler = "relay"
  /\ \E n \in Outcomes :
       /\ Settle(n, RelayCompose(body, processEnv, callOpenAI(n)))
       /\ llmOutcome' = callOpenAI(n)
  /\ UNCHANGED <<absImages, imageParts>>

PostEnStart ==
  /\ pc = "start" /\ handler = "en"
  /\ IF EnPrologueThrows(body) THEN Finish(Uncaught) /\ UNCHANGED imageParts
     ELSE IF EnHasKey(processEnv)
       THEN Fetch /\ imageParts' = EnImageParts(body, processEnv)
     ELSE Finish(EnNoKey(body)) /\ UNCHANGED imageParts
  /\ absImages' = IF body.kind = "primitive" THEN absImages
                  ELSE EnAbsImages(body, processEnv)
  /\ UNCHANGED llmOutcome

PostEnSettle ==
  /\ pc = "awaiting" /\ handler = "en"
  /\ \E n \in Outcomes : Settle(n, EnAfterFetch(body, n))
  /\ UNCHANGED <<llmOutcome, absImages, imageParts>>

PostRuStart ==
  /\ pc = "start" /\ handler \in {"ru", "ruts"}
  /\ IF RuPrologueThrows(handler, body) THEN Finish(Uncaught)
     ELSE IF RuHasKey(processEnv) THEN Fetch
     ELSE Finish(RuNoKey(handler, body))
  /\ UNCHANGED <<llmOutcome, absImages, imageParts>>

PostRuSettle ==
  /\ pc = "awaiting" /\ handler \in {"ru", "ruts"}
  /\ \E n \in Outcomes : Settle(n, RuAfterFetch(handler, body, n))
  /\ UNCHANGED <<llmOutcome, absImages, imageParts>>

Next ==
  \/ PostRelayStart
  \/ PostRelaySettle
  \/ PostEnStart
  \/ PostEnSettle
  \/ PostRuStart
  \/ PostRuSettle

Spec == Init /\ [][Next]_vars

---------------------------------------------------------------------------
(* The English handler over image lists and image configuration *)

RelUrl   == Str(<<"/", "a", ".", "j", "p", "g">>)
AbsUrl   == Str(<<"h", "t", "t", "p", "s", ":", "/", "/", "x", "/", "b">>)
UpperUrl == Str(<<"H", "T", "T", "P", "S", ":", "/", "/", "x", "/", "b">>)
DataUrl  == Str(<<"d", "a", "t", "a", ":", "i", "m", "g">>)
HttpPath == Str(<<"h", "t", "t", "p", "d", "o", "c", "s", "/", "a">>)

\* n distinct relative paths "/1", "/2", ...
RelList(n) == [i \in 1..n |-> Str(<<"/">> \o Digits(i))]

\* b.images: absent, null, a string, or a list of strings and non-strings
ImageValues ==
  { Undef, Null, RelUrl }
  \cup { Arr(RelList(n)) : n \in 0..MaxImages }
  \cup { Arr(<<RelUrl, AbsUrl, Num(42)>>),
         Arr(<<Num(42), AbsUrl, Null, RelUrl, AbsUrl>>),
         Arr(<<UpperUrl>>), Arr(<<DataUrl>>), Arr(<<HttpPath>>) }

UseImagesValues == { Undef, Bool(TRUE), Bool(FALSE), Num(0) }

ImageBodies ==
  { [EmptyObject EXCEPT !.images = im, !.useImages = u] :
      im \in ImageValues, u \in UseImagesValues }

\* MAX_IMAGE_COUNT: unset, empty, a count, a negative number, not a number
MaxCounts ==
  { Undef, Str(<<>>), Str(<<"0">>), Str(<<"2">>), Str(<<"-", "1">>), Str(<<"x">>) }

ImageEnvs ==
  { [NoEnv EXCEPT !.OPENAI_API_KEY = k, !.SOURCE_BASE_URL = b, !.MAX_IMAGE_COUNT = c] :
      k \in {Undef, Key}, b \in {Undef, Str(<<"https://b.test">>)}, c \in MaxCounts }

InitImages ==
  /\ handler = "en"
  /\ processEnv \in ImageEnvs
  /\ body \in ImageBodies
  /\ pc = "start"
  /\ calls = 0
  /\ net = NoNet
  /\ resp = NoResp
  /\ llmOutcome = LlmNone
  /\ absImages = <<>>
  /\ imageParts = <<>>

NextImages ==
  \/ PostEnStart
  \/ PostEnSettle

SpecImages == InitImages /\ [][NextImages]_vars

---------------------------------------------------------------------------
(* The English-copy handlers over listings with any of the optional facts
   absent, for each length *)

Short  == Str(<<"short">>)
Medium == Str(<<"medium">>)
Long   == Str(<<"long">>)

ListingBodies ==
  { [EmptyObject EXCEPT !.address = a, !.price = p, !.bedrooms = bd,
                        !.bathrooms = ba, !.area = ar, !.images = im, !.length = l] :
      a  \in {Undef, FullObject.address},
      p  \in {Undef, FullObject.price},
      bd \in {Undef, FullObject.bedrooms},
      ba \in {Undef, Num(1)},
      ar \in {Undef, FullObject.area},
      im \in {Undef, FullObject.images},
      l  \in {Short, Medium, Long} }

InitListing ==
  /\ handler \in {"relay", "en"}
  /\ processEnv \in {NoEnv, [NoEnv EXCEPT !.OPENAI_API_KEY = Key]}
  /\ body \in ListingBodies
  /\ pc = "start"
  /\ calls = 0
  /\ net = NoNet
  /\ resp = NoResp
  /\ llmOutcome = LlmNone
  /\ absImages = <<>>
  /\ imageParts = <<>>

NextListing ==
  \/ PostRelayStart
  \/ PostRelaySettle
  \/ PostEnStart
  \/ PostEnSettle

SpecListing == InitListing /\ [][NextListing]_vars

---------------------------------------------------------------------------
(* Vocabulary of the claims *)

Responded == pc = "done"

\* no credential in any of the variables a handler reads
NoCredential ==
  /\ ~Truthy(processEnv.OPENAI_API_KEY)
  /\ ~Truthy(processEnv.OPENAI_APIKEY)
  /\ ~Truthy(processEnv.OPENAI_KEY)

\* the credential the running handler looks for is configured
HandlerCredential ==
  IF handler = "relay" THEN ~NoCredential ELSE Truthy(processEnv.OPENAI_API_KEY)

ProviderFailedStatus == net.kind = "http" /\ ~StatusOk(net)

RequestMode  == Get(body, "mode")
RequestStyle == Get(body, "style")

EmptyStr == Str(<<>>)

\* the JSON object embedded in a content: the text from its first "{" to its
\* last "}", parsed
Embedded(c) ==
  LET i == IndexOf(c, "{", 1)
      j == LastIndexOf(c, "}", Len(c))
  IN IF i >= 1 /\ j > i THEN JsonParse(SubSeq(c, i, j)) ELSE ParseFail

EmbeddedLen(c) ==
  LastIndexOf(c, "}", Len(c)) - IndexOf(c, "{", 1) + 1

---------------------------------------------------------------------------
(* C1: every handler answers every request body and every provider outcome
   with ok: true; ok: false or an uncaught exception happens only when the
   fallback composition itself fails (here: a fallback generator of the
   Russian handlers throwing on the title). *)
C1_AlwaysOk ==
  /\ Responded => resp.ok = TRUE
  /\ pc = "thrown" => handler \in {"ru", "ruts"} /\ TitleTrimThrows(handler, body)

(* C2: in every response that carries texts, style "business" implies
   texts.emotional is the empty string and style "emotional" implies
   texts.business is the empty string. *)
C2_StyleRestrictsTexts ==
  (Responded /\ resp.hasTexts) =>
    /\ RequestStyle = StyleBusiness => resp.emotional = EmptyStr
    /\ RequestStyle = StyleEmotional => resp.business = EmptyStr

(* C3: for a request with mode "title", the handlers that take a mode (relay,
   en) answer on every path with a non-empty title and with texts absent or
   both empty. *)
C3_TitleModeOnlyTitle ==
  (Responded /\ handler \in {"relay", "en"} /\ RequestMode = ModeTitle) =>
    /\ IsStr(resp.title) /\ resp.title.v /= <<>>
    /\ resp.hasTexts => resp.business = EmptyStr /\ resp.emotional = EmptyStr

(* C4: for a request with mode "descriptions", the response's title is absent
   or the empty string on every path. *)
C4_DescriptionsModeNoTitle ==
  (Responded /\ RequestMode = ModeDescriptions) =>
    resp.title \in {Undef, EmptyStr}

C5_ExpectedSource ==
  IF ~HandlerCredential THEN "fallback"
  ELSE IF net.kind = "reject" THEN "fallback_exception"
  ELSE IF ~StatusOk(net) THEN "fallback_llm_error"
  ELSE IF net.jsonOk /\ IsStr(net.content) /\ Embedded(net.content.v).ok THEN "llm"
  ELSE "fallback_exception"

(* C5: the source tag is "llm" only when the provider call succeeded and its
   content parsed as JSON; otherwise "fallback" without a credential,
   "fallback_llm_error" on a non-success status, "fallback_exception" on an
   exception or a parse failure of the content. *)
C5_SourceTellsOutcome ==
  Responded => resp.source = Str(<<C5_ExpectedSource>>)

C6_Requested(f) ==
  IF f = "title"
    THEN handler \in {"relay", "en"} /\ ModeOf(body) \in {ModeTitle, ModeAll}
  ELSE /\ ModeOf(body) \in {ModeDescriptions, ModeAll}
       /\ f = "business" => StyleOf(body) /= StyleEmotional
       /\ f = "emotional" => StyleOf(body) /= StyleBusiness

\* the provider's value for a field: undefined unless the call succeeded and
\* its content parsed (the relay parses the whole content and reads the
\* texts from a nested object)
C6_Provided(f) ==
  IF ~(net.kind = "http" /\ StatusOk(net) /\ net.jsonOk /\ IsStr(net.content))
    THEN Undef
  ELSE IF handler = "relay"
    THEN LET o == JsonParse(net.content.v)
         IN IF f = "title" THEN o.title ELSE o.texts[f]
  ELSE Embedded(net.content.v)[f]

C6_RequestTitle ==
  IF IsStr(Get(body, "title")) THEN Get(body, "title").v ELSE <<>>

\* the fallback generator of a field, applied to request b whose title is t
C6_Generated(f, b, t, length) ==
  IF handler = "relay"
    THEN (IF f = "title" THEN fallbackTitle(b) ELSE fallbackDescriptions(b, length)[f])
  ELSE IF handler = "en"
    THEN (IF f = "title" THEN genTitle(b)
          ELSE IF f = "business" THEN genBusinessEn(b, t) ELSE genEmotionalEn(b, t))
  ELSE IF f = "business" THEN genBusinessRu(b) ELSE genEmotionalRu(b)

C6_Fields == {"title", "business", "emotional"}

(* C6, as stated: every field requested by mode and style equals the
   provider's value when the LLM outcome is ok and that value is a non-empty
   string, and otherwise equals the corresponding fallback generator's output
   for the request; so every requested field is non-empty. *)
C6_AsStated ==
  Responded =>
    \A f \in C6_Fields :
      C6_Requested(f) =>
        resp[f] = IF IsStr(C6_Provided(f)) /\ C6_Provided(f).v /= <<>>
                    THEN C6_Provided(f)
                    ELSE Str(C6_Generated(f, body, C6_RequestTitle, LengthOf(body)))

C6_NonBlank(x) == IsStr(x) /\ Trim(x.v) /= <<>>

C6_RelayFailed == handler = "relay" /\ TrimOrEmptyThrows(Get(body, "title"))

C6_Expected(f) ==
  LET p == C6_Provided(f)
  IN IF C6_RelayFailed
       THEN C6_Generated(f, EmptyData, <<>>, Str(<<"medium">>))
     ELSE IF handler = "relay" /\ f = "title"
       THEN (IF C6_NonBlank(p)
               THEN (IF Trim(Slice0(p.v, TitleMax)) /= <<>> THEN Slice0(p.v, TitleMax)
                     ELSE fallbackTitle(body))
             ELSE IF Trim(C6_RequestTitle) /= <<>> THEN Trim(C6_RequestTitle)
             ELSE fallbackTitle(body))
     ELSE IF C6_NonBlank(p) THEN (IF handler = "relay" THEN p.v ELSE Trim(p.v))
     ELSE C6_Generated(f, body, IF handler = "en" THEN resp.title.v ELSE <<>>,
                       LengthOf(body))

(* C6, amended: every requested field of a response is a non-empty string.
   It is the provider's value when the LLM outcome is ok and that value is a
   non-blank string: trimmed in the handlers that read style, and in the
   relay as it came, its title cut to 200 characters (the fallback title if
   the cut is blank).  Otherwise it is the fallback generator's output for
   the request, except that the relay keeps the request's own trimmed title
   when that is non-blank, that the English handler hands its description
   generators the response's title in place of the request's, and that the
   relay's exception path (a request title that is truthy and not a string)
   answers with the generators' output for an empty request. *)
C6_RequestedFieldsFilled ==
  Responded =>
    \A f \in C6_Fields :
      C6_Requested(f) =>
        /\ IsStr(resp[f]) /\ resp[f].v /= <<>>
        /\ resp[f] = Str(C6_Expected(f))

\* a response of the English handler that mixes both origins: the emotional
\* text is the provider's, the title and the business text are generated
C6_Witness ==
  /\ Responded /\ handler = "en"
  /\ \A f \in C6_Fields : C6_Requested(f)
  /\ C6_NonBlank(C6_Provided("emotional")) /\ resp.emotional = C6_Provided("emotional")
  /\ ~C6_NonBlank(C6_Provided("title")) /\ resp.title = Str(genTitle(body))
  /\ ~C6_NonBlank(C6_Provided("business"))
  /\ resp.business = Str(genBusinessEn(body, genTitle(body)))

(* C7: within one request no call goes out to the provider when no credential
   is configured, and at most one otherwise: a failed attempt is not
   repeated. *)
C7_AtMostOneCall ==
  /\ calls <= 1
  /\ NoCredential => calls = 0

\* a request whose single attempt failed and was answered
C7_Witness ==
  Responded /\ calls = 1 /\ (net.kind = "reject" \/ ProviderFailedStatus)

(* C8: whenever the provider answers with a non-success status s, the response
   has ok: true, source "fallback_llm_error" and llm_status = s. *)
C8_ErrorStatusSurfaced ==
  (Responded /\ ProviderFailedStatus) =>
    /\ resp.ok = TRUE
    /\ resp.source = Str(<<"fallback_llm_error">>)
    /\ resp.llm_status = Num(net.status)

(* C9: every response carries llm_status ("missing_key" when no credential is
   configured), and an llm_error that is present has at most 500 characters. *)
C9_StatusAlwaysSurfaced ==
  Responded =>
    /\ resp.llm_status /= Undef
    /\ NoCredential => resp.llm_status = Str(<<"missing_key">>)
    /\ resp.llm_error /= Undef => Len(resp.llm_error.v) <= ErrorCut

C10_Object ==
  LET o == Embedded(net.content.v)
  IN IF handler = "relay"
       THEN [title |-> o.title, business |-> o.texts.business,
             emotional |-> o.texts.emotional]
       ELSE [title |-> o.title, business |-> o.business, emotional |-> o.emotional]

C10_Wrapped ==
  /\ net.kind = "http" /\ StatusOk(net) /\ net.jsonOk /\ IsStr(net.content)
  /\ Embedded(net.content.v).ok
  /\ EmbeddedLen(net.content.v) < Len(net.content.v)

C10_Usable(x) == IsStr(x) /\ Trim(x.v) /= <<>> /\ Len(x.v) <= TitleMax

(* C10: when the provider succeeds and its content is a valid JSON object of
   the expected shape with extraneous text around it, the response carries
   that object's title, business and emotional values (for the fields the
   request asks for), not fallback text. *)
C10_WrappedJsonUsed ==
  (Responded /\ C10_Wrapped) =>
    /\ (handler \in {"relay", "en"} /\ RequestMode /= ModeDescriptions
          /\ C10_Usable(C10_Object.title))
         => IsStr(resp.title) /\ Trim(resp.title.v) = Trim(C10_Object.title.v)
    /\ (RequestMode /= ModeTitle /\ RequestStyle /= StyleEmotional
          /\ C10_Usable(C10_Object.business))
         => IsStr(resp.business) /\ Trim(resp.business.v) = Trim(C10_Object.business.v)
    /\ (RequestMode /= ModeTitle /\ RequestStyle /= StyleBusiness
          /\ C10_Usable(C10_Object.emotional))
         => IsStr(resp.emotional) /\ Trim(resp.emotional.v) = Trim(C10_Object.emotional.v)

---------------------------------------------------------------------------
(* Vocabulary of the image claims *)

\* the English handler has computed its image list
ImagesNormalized == handler = "en" /\ pc /= "start" /\ body.kind /= "primitive"

\* MAX_IMAGE_COUNT is unset or empty (the default applies) or holds a count
CountConfigured ==
  \/ ~Truthy(processEnv.MAX_IMAGE_COUNT)
  \/ /\ IsStr(processEnv.MAX_IMAGE_COUNT)
     /\ \A i \in 1..Len(processEnv.MAX_IMAGE_COUNT.v) :
          IsDigit(processEnv.MAX_IMAGE_COUNT.v[i])

ConfiguredCount ==
  IF Truthy(processEnv.MAX_IMAGE_COUNT) THEN DigitsVal(processEnv.MAX_IMAGE_COUNT.v, 0)
  ELSE DefaultMaxN

ConfiguredBase ==
  IF Truthy(processEnv.SOURCE_BASE_URL) THEN processEnv.SOURCE_BASE_URL.v
  ELSE DefaultBase.v

\* an absolute URL: a scheme of letters, then a colon
IsAbsoluteUrl(u) ==
  \E i \in 2..Len(u) :
    /\ u[i] = ":"
    /\ \A j \in 1..(i - 1) : u[j] \notin {"/", ":", "."} /\ ~IsDigit(u[j])

\* the strings of the request's images list, in order
ImageStrings ==
  IF Get(body, "images").t = "array" THEN SelectSeq(Get(body, "images").v, IsStr)
  ELSE <<>>

(* C11: the normalized image list is the images list without its non-string
   entries, in order, each absolute URL unchanged and every other entry
   prefixed with the configured base URL, cut to the first N entries for the
   configured maximum count N (6 by default); a non-list gives the empty
   list. *)
C11_ImagesNormalized ==
  ImagesNormalized /\ CountConfigured =>
    LET strings == ImageStrings
        n       == IF Len(strings) < ConfiguredCount THEN Len(strings)
                   ELSE ConfiguredCount
    IN absImages = [i \in 1..n |->
                      IF IsAbsoluteUrl(strings[i].v) THEN strings[i]
                      ELSE Str(ConfiguredBase \o strings[i].v)]

---------------------------------------------------------------------------
\* the relay's call to the LLM client has returned
ClientReturned == handler = "relay" /\ calls = 1 /\ pc /= "awaiting"

\* what counts as a failure inside the client: fetch rejected, a non-success
\* status, a body that is not JSON, a missing, empty or non-string content,
\* a content that is not parseable JSON
ClientFailure ==
  \/ net.kind = "reject"
  \/ ~StatusOk(net)
  \/ ~net.jsonOk
  \/ ~IsStr(net.content)
  \/ net.content.v = <<>>
  \/ ~JsonParse(net.content.v).ok

(* C12: the LLM client never throws to its caller: every failure inside it
   comes back as an outcome with status "error" and a message, and status
   "ok" comes back only when the content parsed as JSON. *)
C12_ClientNeverThrows ==
  ClientReturned =>
    /\ llmOutcome.status \in {"ok", "error"}
    /\ ClientFailure => llmOutcome.status = "error" /\ Truthy(llmOutcome.error)
    /\ llmOutcome.status = "ok" => ~ClientFailure

\* the relay answered after fetch rejected inside the client
C12_Witness ==
  /\ ClientReturned /\ Responded
  /\ net.kind = "reject"
  /\ llmOutcome = LlmError(Str(<<"fetch failed">>))
  /\ resp.llm_status = Str(<<"error">>)

---------------------------------------------------------------------------
(* Vocabulary of the fallback-text claims *)

DescriptionFields == {"business", "emotional"}

\* the fixed ordered sentence list of a description field for the request
SentenceList(f) ==
  IF f = "business" THEN businessSentences(body) ELSE emotionalSentences(body)

\* the fallback text of a field for the request at a given length
FallbackText(f, length) == fallbackDescriptions(body, length)[f]

\* how many sentences of the list a text is made of: every k whose first k
\* sentences, joined, are the text
SentencesIn(f, text) ==
  { k \in 0..Len(SentenceList(f)) :
      text = Join(SubSeq(SentenceList(f), 1, k), <<" ">>) }

IsPrefix(s, t) == Len(s) <= Len(t) /\ SubSeq(t, 1, Len(s)) = s

\* the relay answered and took field f from its fallback generator
RelayFellBack(f) ==
  /\ handler = "relay" /\ Responded
  /\ ~TrimOrEmptyThrows(Get(body, "title"))
  /\ resp.hasTexts
  /\ ~isNonEmpty(llmOutcome[f])

(* C13: for every listing the number of sentences of the fallback business
   text and of the fallback emotional text does not decrease as length goes
   short, medium, long, and the text of a shorter length is a prefix, by
   sentences of the one fixed ordered list, of the text of a longer length. *)
C13_LengthMonotone ==
  handler = "relay" =>
    \A f \in DescriptionFields :
      /\ \A l \in {Short, Medium, Long} : SentencesIn(f, FallbackText(f, l)) /= {}
      /\ \A ks \in SentencesIn(f, FallbackText(f, Short)) :
           \A km \in SentencesIn(f, FallbackText(f, Medium)) :
             \A kl \in SentencesIn(f, FallbackText(f, Long)) : ks <= km /\ km <= kl
      /\ IsPrefix(FallbackText(f, Short), FallbackText(f, Medium))
      /\ IsPrefix(FallbackText(f, Medium), FallbackText(f, Long))
      /\ RelayFellBack(f) => resp[f] = Str(FallbackText(f, LengthOf(body)))

\* a fallback answer at length long for a listing with all its facts: both
\* texts grow strictly from short to medium to long
C13_Witness ==
  /\ \A f \in DescriptionFields :
       /\ RelayFellBack(f)
       /\ resp[f] = Str(FallbackText(f, Long))
       /\ FallbackText(f, Short) /= FallbackText(f, Medium)
       /\ FallbackText(f, Medium) /= FallbackText(f, Long)
  /\ LengthOf(body) = Long

\* text pieces that stand in for a missing value
Placeholders == {"undefined", "null", "NaN", "<mdash>"}

HasPlaceholder(x) == IsStr(x) /\ \E i \in 1..Len(x.v) : x.v[i] \in Placeholders

(* C14: whichever optional facts of the listing are absent, the title, the
   business text and the emotional text of a response carry no placeholder
   ("undefined", "null", "NaN", a dash standing for a value). *)
C14_NoPlaceholders ==
  Responded /\ handler \in {"relay", "en"} =>
    /\ ~HasPlaceholder(resp.title)
    /\ ~HasPlaceholder(resp.business)
    /\ ~HasPlaceholder(resp.emotional)

---------------------------------------------------------------------------
\* the request says useImages: false
UseImagesFalse == Get(body, "useImages") = Bool(FALSE)

(* C15: the outbound request of the English handler carries image
   attachments only when useImages is not false and the normalized image
   list is non-empty; it then carries exactly the normalized list, at most
   the configured maximum count of entries; with useImages false, and when
   no request goes out, it carries none. *)
C15_AttachmentsFollowUseImages ==
  handler = "en" =>
    /\ calls = 0 => imageParts = <<>>
    /\ calls = 1 =>
         /\ imageParts /= <<>> => ~UseImagesFalse /\ absImages /= <<>>
         /\ ~UseImagesFalse /\ absImages /= <<>> =>
              /\ imageParts = absImages
              /\ CountConfigured => Len(imageParts) <= ConfiguredCount
         /\ UseImagesFalse => imageParts = <<>>

\* a request without the useImages flag whose list was longer than the
\* maximum count went out with exactly that many attachments
C15_Witness ==
  /\ handler = "en" /\ calls = 1 /\ Responded
  /\ Get(body, "useImages") = Undef
  /\ CountConfigured
  /\ Len(ImageStrings) > ConfiguredCount
  /\ imageParts = absImages
  /\ Len(imageParts) = ConfiguredCount /\ ConfiguredCount > 0

===========================================================================
